---- MODULE Spec2Model ----
(***************************************************************************)
(* Elgato Key Light control (class KeyLight and the toggle command).       *)
(*                                                                         *)
(* Strings the code parses (the keyLights_ips and keyLights_count          *)
(* preferences) are sequences of one-character strings, so that split,     *)
(* trim and parseInt are computed character by character.  Addresses are   *)
(* strings too: the address "a" is <<"a">>.                                *)
(*                                                                         *)
(* Temperatures are exact rationals with denominator TempDenom: the        *)
(* number t stands for t / TempDenom, so that TEMPERATURE_STEP, 10.05, is  *)
(* the integer 201.  (The code computes in IEEE doubles; the rounding of   *)
(* the doubles is not modelled.)                                           *)
(***************************************************************************)
EXTENDS Integers, Sequences, FiniteSets, TLC

VARIABLES
    keyLights,  \* KeyLight.keyLights, the registry: a sequence of [ip, port]
    disc,       \* the multicast discoveries started so far, one record each
    devices,    \* the lights on the network: address -> lights[0] of the device
    services,   \* the services of type "elg" a browser on the network can report
    op,         \* the control operation in flight, or the last one
    reqs,       \* the device requests issued by that control operation
    preferences, \* what getPreferenceValues returns: the user's configuration
    nCalls,     \* number of calls made so far (discover and control operations)
    prev        \* what the control operation before this one did

vars == <<keyLights, disc, devices, services, op, reqs, preferences, nCalls, prev>>

----------------------------------------------------------------------------
(* Bounds of the model *)

MaxCalls == 3       \* calls of discover and of control operations in one behaviour

----------------------------------------------------------------------------
(* Constants of the program *)

WARM_TEMPERATURE == 344
COLD_TEMPERATURE == 143
TempDenom == 20
\* (WARM_TEMPERATURE - COLD_TEMPERATURE) / 20, in units of 1 / TempDenom
TEMPERATURE_STEP == ((WARM_TEMPERATURE - COLD_TEMPERATURE) * TempDenom) \div 20
DefaultPort == 9123
BrightnessStep == 5
MaxBrightness == 100
MinBrightness == 0

\* a whole number of the source as a temperature of the model
T(n) == n * TempDenom

Min(a, b) == IF a <= b THEN a ELSE b
Max(a, b) == IF a >= b THEN a ELSE b

----------------------------------------------------------------------------
(* Strings *)

\* the values of the keyLights_ips preference tried ("" is the preference
\* left unset)
IpsPreferences ==
    { <<>>,
      <<"a">>, <<"b", ",", "a">>, <<"a", ",", "a">>,
      <<" ", "a", " ", ",", " ", "b", " ">>,
      <<"a", " ", "b", ",", ",", "b">> }

\* the values of the keyLights_count preference tried
CountPreferences ==
    { <<"2">>, <<" ", "1", "x">>, <<>> }

\* the configurations tried: a static list (the count is then never read),
\* or none and a count
Preferences ==
    {[keyLights_ips |-> ips, keyLights_count |-> <<"1">>] :
        ips \in IpsPreferences \ {<<>>}}
    \cup {[keyLights_ips |-> <<>>, keyLights_count |-> c] : c \in CountPreferences}

RECURSIVE split(_, _)
\* String.prototype.split(sep), sep a single character
split(s, sep) ==
    IF \A k \in 1..Len(s) : s[k] # sep
    THEN <<s>>
    ELSE LET k == CHOOSE k \in 1..Len(s) :
                      s[k] = sep /\ \A j \in 1..(k - 1) : s[j] # sep
         IN  <<SubSeq(s, 1, k - 1)>> \o split(SubSeq(s, k + 1, Len(s)), sep)

RECURSIVE trimStart(_)
trimStart(s) ==
    IF s # <<>> /\ Head(s) = " " THEN trimStart(Tail(s)) ELSE s

RECURSIVE trimEnd(_)
trimEnd(s) ==
    IF s # <<>> /\ s[Len(s)] = " " THEN trimEnd(SubSeq(s, 1, Len(s) - 1)) ELSE s

\* a trim that leaves the white space at the end
trim_startOnly(s) == trimStart(s)

\* String.prototype.trim
trim(s) == trimEnd(trimStart(s))

Digit(c) == CASE c = "0" -> 0 [] c = "1" -> 1 [] c = "2" -> 2 [] OTHER -> -1

RECURSIVE parseDigits(_, _, _)
parseDigits(s, acc, any) ==
    IF s = <<>> \/ Digit(Head(s)) < 0
    THEN [isNaN |-> ~any, n |-> acc]
    ELSE parseDigits(Tail(s), 10 * acc + Digit(Head(s)), TRUE)

\* parseInt(s, 10): leading white space skipped, then the longest run of
\* digits; NaN when there is none
parseInt(s) == parseDigits(trimStart(s), 0, FALSE)

\* x === c for a length x and a parsed number c (NaN equals nothing)
StrictEq(x, c) == ~c.isNaN /\ x = c.n

----------------------------------------------------------------------------
(* The network *)

\* the addresses at which a light answers, each on DefaultPort
Hosts == {<<"a">>, <<"b">>}

Light(on, brightness, temperature) ==
    [on |-> on, brightness |-> brightness, temperature |-> temperature]

\* A service as a browser reports it: its source address ("" when the
\* service has no referer or no address) and its port (0 when it has none).
\* A browser reports a service once, by its name.
Service(name, address, port) ==
    [name |-> name, address |-> address, port |-> port]

\* The networks tried: what the light at "a" and the light at "b" report
\* as lights[0] at the start, and the services announced.  The code takes
\* a report as it comes (response.data.lights[0]), so the brightness
\* reports range beyond 0..100; temperatures are reported within the
\* declared domain 143..344.  On the second network the service of the
\* light at "b" comes without an address or without a port.
Networks ==
    { [lights |-> <<Light(FALSE, 3, T(150)), Light(TRUE, 98, T(340))>>,
       services |-> {Service("A", <<"a">>, DefaultPort),
                     Service("B", <<"b">>, DefaultPort)}],
      [lights |-> <<Light(TRUE, -8, T(143)), Light(FALSE, 108, T(344))>>,
       services |-> {Service("A", <<"a">>, DefaultPort),
                     Service("B", <<>>, DefaultPort),
                     Service("B", <<"b">>, 0)}] }

\* a test of a number that any number passes
TruthyNumber_any(x) == TRUE

\* JavaScript truthiness of a string and of a number
TruthyString(x) == x # <<>>
TruthyNumber(x) == x # 0

\* the device answers the PUT by merging the fields sent into its state
merge(light, options) ==
    [f \in DOMAIN light |-> IF f \in DOMAIN options THEN options[f] ELSE light[f]]

Reachable(keyLight) == keyLight.ip \in Hosts /\ keyLight.port = DefaultPort

----------------------------------------------------------------------------
(* discover *)

\* the caller awaits discover and each control operation before its next call
DiscoverPending == disc # <<>> /\ disc[Len(disc)].find = "pending"
CallerIdle == ~DiscoverPending /\ op.status # "running"

\* the registry built from the keyLights_ips preference
staticKeyLights(ipsPref) ==
    LET ips == [k \in DOMAIN split(ipsPref, ",") |-> trim(split(ipsPref, ",")[k])]
    IN  [k \in DOMAIN ips |-> [ip |-> ips[k], port |-> DefaultPort]]

DiscoverStatic ==
    /\ CallerIdle
    /\ nCalls < MaxCalls
    /\ nCalls' = nCalls + 1
    /\ TruthyString(preferences.keyLights_ips)
    /\ keyLights' = staticKeyLights(preferences.keyLights_ips)
    /\ UNCHANGED <<disc, devices, services, op, reqs, preferences, prev>>

\* a multicast discover that keeps the registry it finds
DiscoverBonjour_noReset ==
    /\ CallerIdle
    /\ nCalls < MaxCalls
    /\ nCalls' = nCalls + 1
    /\ ~TruthyString(preferences.keyLights_ips)
    /\ disc' = Append(disc, [browser |-> "listening", timer |-> "pending",
                             find |-> "pending",
                             count |-> parseInt(preferences.keyLights_count),
                             up |-> {}])
    /\ UNCHANGED <<keyLights, devices, services, op, reqs, preferences, prev>>

\* Bonjour(), the reset of the registry, parseInt, bonjour.find and setTimeout
DiscoverBonjour ==
    /\ CallerIdle
    /\ nCalls < MaxCalls
    /\ nCalls' = nCalls + 1
    /\ ~TruthyString(preferences.keyLights_ips)
    /\ keyLights' = <<>>
    /\ disc' = Append(disc, [browser |-> "listening", timer |-> "pending",
                             find |-> "pending",
                             count |-> parseInt(preferences.keyLights_count),
                             up |-> {}])
    /\ UNCHANGED <<devices, services, op, reqs, preferences, prev>>

\* a promise settles once: resolve and reject after that do nothing
settle(d, how) == IF d.find = "pending" THEN [d EXCEPT !.find = how] ELSE d

\* a callback that resolves at the first service pushed
onPushed_atFirst(d, lights) == [settle(d, "resolved") EXCEPT !.browser = "destroyed"]

\* what the callback of bonjour.find does once the service is pushed
onPushed(d, lights) ==
    IF StrictEq(Len(lights), d.count)
    THEN [settle(d, "resolved") EXCEPT !.browser = "destroyed"]
    ELSE d

\* the callback of bonjour.find, for browser s and one announcement
Announce(s, service) ==
    /\ disc[s].browser = "listening"
    /\ service.name \notin disc[s].up
    /\ LET d == [disc[s] EXCEPT !.up = @ \cup {service.name}]
       IN  IF TruthyString(service.address) /\ TruthyNumber(service.port)
           THEN /\ keyLights' = Append(keyLights,
                                       [ip |-> service.address, port |-> service.port])
                /\ disc' = [disc EXCEPT ![s] = onPushed(d, keyLights')]
           ELSE /\ keyLights' = keyLights
                /\ disc' = [disc EXCEPT ![s] = d]
    /\ UNCHANGED <<devices, services, op, reqs, preferences, nCalls, prev>>

\* a timeout callback that never rejects
onTimeout_noReject(d, lights) == d

\* a timeout callback that rejects whatever the registry holds
onTimeout_rejectAlways(d, lights) == settle(d, "rejected")

\* what the callback of setTimeout does
onTimeout(d, lights) ==
    IF Len(lights) = 0 THEN settle(d, "rejected") ELSE d

\* the 5000 ms timer of discovery s fires (timers fire in the order set)
Timeout(s) ==
    /\ disc[s].timer = "pending"
    /\ \A r \in 1..(s - 1) : disc[r].timer = "fired"
    /\ disc' = [disc EXCEPT ![s] = [onTimeout(disc[s], keyLights)
                                      EXCEPT !.timer = "fired"]]
    /\ UNCHANGED <<keyLights, devices, services, op, reqs, preferences, nCalls, prev>>

----------------------------------------------------------------------------
(* The control operations *)

Kinds == {"toggle", "increaseBrightness", "decreaseBrightness",
          "increaseTemperature", "decreaseTemperature"}

\* a toggle that switches the light on whatever its state
toggle_alwaysOn(state) == TRUE

\* an increase of the temperature that is not clamped
increaseTemperature_unclamped(state) == state.temperature + TEMPERATURE_STEP

\* the value each operation computes from the state it fetched
toggle_newState(state) == ~state.on
increaseBrightness_newBrightness(state) ==
    Min(state.brightness + BrightnessStep, MaxBrightness)
decreaseBrightness_newBrightness(state) ==
    Max(state.brightness - BrightnessStep, MinBrightness)
increaseTemperature_newTemperature(state) ==
    Min(state.temperature + TEMPERATURE_STEP, T(WARM_TEMPERATURE))
decreaseTemperature_newTemperature(state) ==
    Max(state.temperature - TEMPERATURE_STEP, T(COLD_TEMPERATURE))

newValue(kind, state) ==
    CASE kind = "toggle" -> toggle_newState(state)
      [] kind = "increaseBrightness" -> increaseBrightness_newBrightness(state)
      [] kind = "decreaseBrightness" -> decreaseBrightness_newBrightness(state)
      [] kind = "increaseTemperature" -> increaseTemperature_newTemperature(state)
      [] kind = "decreaseTemperature" -> decreaseTemperature_newTemperature(state)

\* brightness options that switch the light on as well
brightness_options_withPower(newBrightness) ==
    [brightness |-> newBrightness, on |-> TRUE]

\* the options each operation hands to updateKeyLight
toggle_options(newState) == [on |-> newState]
brightness_options(newBrightness) == [brightness |-> newBrightness]
temperature_options(newTemperature) == [temperature |-> newTemperature]

options(kind, value) ==
    CASE kind = "toggle" -> toggle_options(value)
      [] kind \in {"increaseBrightness", "decreaseBrightness"} ->
            brightness_options(value)
      [] kind \in {"increaseTemperature", "decreaseTemperature"} ->
            temperature_options(value)

\* an Error whose message leaves the address out
failure_withoutAddress(kind, keyLight) ==
    [message |-> "Failed", ip |-> <<>>]

\* the Error thrown by the catch block of each operation
failure(kind, keyLight) ==
    [message |-> CASE kind = "toggle" -> "Failed toggling Key Light at"
                   [] kind = "increaseBrightness" -> "Failed increasing brightness for"
                   [] kind = "decreaseBrightness" -> "Failed decreasing brightness for"
                   [] kind = "increaseTemperature" -> "Failed increasing temperature for"
                   [] kind = "decreaseTemperature" -> "Failed decreasing temperature for",
     ip |-> keyLight.ip]

NoError == [message |-> "", ip |-> <<>>]
NoState == Light(FALSE, 0, 0)

\* axios.get and axios.put as getKeyLight and updateKeyLight issue them (the
\* url holds the ip and the port); pos is the position of the registry
\* entry the request is for
getKeyLight(config, pos) ==
    [method |-> "GET", ip |-> config.ip, port |-> config.port,
     lights |-> <<>>, pos |-> pos]
updateKeyLight(config, opts, pos) ==
    [method |-> "PUT", ip |-> config.ip, port |-> config.port,
     lights |-> <<opts>>, pos |-> pos]

\* An operation: its kind, how far it is (status, the position i of the
\* entry at hand and the request in flight for it), the state fetched for
\* that entry, the value last computed (<<>> while undefined), the Error
\* thrown, and the lights and the registry as they were when it was called.
Idle(devs) ==
    [kind |-> "none", status |-> "none", i |-> 0, phase |-> "end",
     state |-> NoState, value |-> <<>>, error |-> NoError, before |-> devs,
     registry |-> <<>>]

\* the loop takes the entry at position i: its GET is in flight
fetching(o, i) == [o EXCEPT !.status = "running", !.i = i, !.phase = "fetch"]

\* a return that gives FALSE where nothing was computed
returned_false(o) ==
    [o EXCEPT !.status = "done", !.phase = "end",
              !.value = IF @ = <<>> THEN <<FALSE>> ELSE @]

\* return: the operation ends with the value last computed
returned(o) == [o EXCEPT !.status = "done", !.phase = "end"]

\* what the finished operation leaves for the next one to look back on: for
\* a toggle that returned, the power of each light before it and the
\* addresses it pushed to
summary(o, rs) ==
    IF o.kind = "toggle" /\ o.status = "done"
    THEN [toggled |-> TRUE,
          on |-> [h \in Hosts |-> o.before[h].on],
          ips |-> [k \in 1..(Len(rs) \div 2) |-> rs[2 * k].ip]]
    ELSE [toggled |-> FALSE, on |-> [h \in Hosts |-> FALSE], ips |-> <<>>]

\* the call of a control operation: with an empty registry the loop body
\* never runs and the operation returns undefined; otherwise the GET for
\* the first entry is issued
Call(kind) ==
    /\ CallerIdle
    /\ nCalls < MaxCalls
    /\ nCalls' = nCalls + 1
    /\ prev' = summary(op, reqs)
    /\ LET o == [Idle(devices) EXCEPT !.kind = kind, !.registry = keyLights]
       IN  IF keyLights = <<>>
           THEN /\ op' = returned(o)
                /\ reqs' = <<>>
           ELSE /\ op' = fetching(o, 1)
                /\ reqs' = <<getKeyLight(keyLights[1], 1)>>
    /\ UNCHANGED <<keyLights, disc, devices, services, preferences>>

\* the catch block: the operation ends with the Error for the entry at hand
caught(o, keyLight) ==
    [o EXCEPT !.status = "failed", !.error = failure(o.kind, keyLight)]

\* the GET answers: the new value is computed and the PUT issued
Fetched ==
    /\ op.status = "running" /\ op.phase = "fetch"
    /\ Reachable(keyLights[op.i])
    /\ LET keyLight == keyLights[op.i]
           state == devices[keyLight.ip]
           value == newValue(op.kind, state)
       IN  /\ op' = [op EXCEPT !.phase = "push", !.state = state,
                                !.value = <<value>>]
           /\ reqs' = Append(reqs,
                             updateKeyLight(keyLight, options(op.kind, value), op.i))
    /\ UNCHANGED <<keyLights, disc, devices, services, preferences, nCalls, prev>>

\* the GET fails (no light at the address, or a transport or status error)
FetchFailed ==
    /\ op.status = "running" /\ op.phase = "fetch"
    /\ op' = caught(op, keyLights[op.i])
    /\ UNCHANGED <<keyLights, disc, devices, services, reqs, preferences, nCalls, prev>>

\* a loop that returns from inside its body, after the first entry
next_returnInLoop(o, lights) == [o EXCEPT !.status = "done", !.phase = "end"]

\* the loop after the PUT of entry o.i answered: the next entry, if the
\* registry has one by now, or the return of the last value computed
next(o, lights) ==
    IF o.i + 1 <= Len(lights) THEN fetching(o, o.i + 1) ELSE returned(o)

\* the PUT answers: the light has merged the options
Pushed ==
    /\ op.status = "running" /\ op.phase = "push"
    /\ LET keyLight == keyLights[op.i]
           put == reqs[Len(reqs)]
       IN  /\ devices' = [devices EXCEPT
                              ![keyLight.ip] = merge(@, put.lights[1])]
           /\ op' = next(op, keyLights)
           /\ reqs' = IF op'.status = "running"
                      THEN Append(reqs, getKeyLight(keyLights[op'.i], op'.i))
                      ELSE reqs
    /\ UNCHANGED <<keyLights, disc, services, preferences, nCalls, prev>>

\* a failed PUT after which the lights are put back as they were when the
\* operation was called
PushFailed_rollback(applied) ==
    /\ op.status = "running" /\ op.phase = "push"
    /\ devices' = op.before
    /\ op' = caught(op, keyLights[op.i])
    /\ UNCHANGED <<keyLights, disc, services, reqs, preferences, nCalls, prev>>

\* the PUT fails; the light may have applied it all the same
PushFailed(applied) ==
    /\ op.status = "running" /\ op.phase = "push"
    /\ LET keyLight == keyLights[op.i]
           put == reqs[Len(reqs)]
       IN  /\ devices' = IF applied /\ Reachable(keyLight)
                         THEN [devices EXCEPT
                                  ![keyLight.ip] = merge(@, put.lights[1])]
                         ELSE devices
           /\ op' = caught(op, keyLight)
    /\ UNCHANGED <<keyLights, disc, services, reqs, preferences, nCalls, prev>>

----------------------------------------------------------------------------

Init ==
    /\ keyLights = <<>>
    /\ disc = <<>>
    /\ \E n \in Networks :
          /\ devices = [h \in Hosts |-> IF h = <<"a">> THEN n.lights[1]
                                                       ELSE n.lights[2]]
          /\ services = n.services
    /\ op = Idle(devices)
    /\ reqs = <<>>
    /\ preferences \in Preferences
    /\ nCalls = 0
    /\ prev = summary(op, reqs)

Next ==
    \/ DiscoverStatic
    \/ DiscoverBonjour
    \/ \E s \in DOMAIN disc, service \in services : Announce(s, service)
    \/ \E s \in DOMAIN disc : Timeout(s)
    \/ \E kind \in Kinds : Call(kind)
    \/ Fetched
    \/ FetchFailed
    \/ Pushed
    \/ \E applied \in BOOLEAN : PushFailed(applied)

Spec == Init /\ [][Next]_vars

\* A caller that does not await discover: the Bonjour branch of discover
\* called again while the find promise of the call before is pending.
DiscoverOverlapping ==
    /\ DiscoverPending
    /\ op.status # "running"
    /\ nCalls < MaxCalls
    /\ nCalls' = nCalls + 1
    /\ ~TruthyString(preferences.keyLights_ips)
    /\ keyLights' = <<>>
    /\ disc' = Append(disc, [browser |-> "listening", timer |-> "pending",
                             find |-> "pending",
                             count |-> parseInt(preferences.keyLights_count),
                             up |-> {}])
    /\ UNCHANGED <<devices, services, op, reqs, preferences, prev>>

NextOverlap ==
    \/ Next
    \/ DiscoverOverlapping

SpecOverlap == Init /\ [][NextOverlap]_vars

----------------------------------------------------------------------------
(* Properties *)

BrightnessKinds == {"increaseBrightness", "decreaseBrightness"}
TemperatureKinds == {"increaseTemperature", "decreaseTemperature"}

\* the PUT requests of the operation, in the order issued
Puts == SelectSeq(reqs, LAMBDA r : r.method = "PUT")

\* the fields a PUT carries
Fields(put) == DOMAIN put.lights[1]

\* C1: every brightness value a brightness operation pushes to a device or
\* returns to its caller lies in 0..100, whatever brightness the device
\* reported.
C1_BrightnessWithinDomain ==
    op.kind \in BrightnessKinds =>
        /\ \A k \in DOMAIN Puts :
               Puts[k].lights[1].brightness \in MinBrightness..MaxBrightness
        /\ op.status = "done" /\ op.value # <<>> =>
               op.value[1] \in MinBrightness..MaxBrightness

C3_FailedAt ==
    op.status = "failed" =>
        /\ reqs # <<>>
        /\ reqs[Len(reqs)].pos = op.i
        /\ op.error.ip = reqs[Len(reqs)].ip
        /\ \A k \in DOMAIN reqs : reqs[k].pos <= op.i
        /\ Len(reqs) = IF op.phase = "fetch" THEN 2 * op.i - 1 ELSE 2 * op.i

\* C3: an operation whose fetch or push for the entry at position i fails
\* ends with an Error naming that entry's address and has issued no request
\* for an entry after position i; once it has failed it issues no request
\* any more.
C3_AbortsAtFirstFailure ==
    /\ []C3_FailedAt
    /\ [][op.status = "failed" /\ op'.status = "failed" => reqs' = reqs]_vars

\* C3 witness: the first fetch failed over a registry of two entries
C3_Witness ==
    /\ op.status = "failed"
    /\ op.phase = "fetch"
    /\ op.i = 1
    /\ Len(keyLights) = 2
    /\ reqs = <<getKeyLight(keyLights[1], 1)>>
    /\ op.error.ip = keyLights[1].ip

\* the announcements browser s has accepted: the services it reported that
\* carry an address and a port
Accepted(s) ==
    {svc \in services : /\ svc.name \in disc[s].up
                        /\ TruthyString(svc.address)
                        /\ TruthyNumber(svc.port)}

Settled(s) == disc[s].find \in {"resolved", "rejected"}

\* the discover call s is the last one made, before and after the step
Latest(s) == s = Len(disc) /\ s = Len(disc')

\* a discovery with target count N >= 1 whose accepted announcements reach
\* N before its timer rejects it is resolved, its browser destroyed and the
\* registry of N entries
C4_ResolvedAtCount ==
    \A s \in DOMAIN disc :
        LET N == disc[s].count
        IN  ~N.isNaN /\ N.n >= 1 =>
              /\ Cardinality(Accepted(s)) >= N.n /\ disc[s].find # "rejected" =>
                     disc[s].find = "resolved"
              /\ disc[s].find = "resolved" => disc[s].browser = "destroyed"
              /\ disc[s].find = "resolved" /\ s = Len(disc) =>
                     Len(keyLights) = N.n

\* C4: a discovery with target count N >= 1 whose accepted announcements
\* reach N before its timer rejects it resolves, with a registry of exactly
\* N entries and its browser destroyed; after that, until the next discover
\* call, no step (an announcement, the timer) changes the registry or the
\* outcome.
C4_ResolvedForGood ==
    /\ []C4_ResolvedAtCount
    /\ [][\A s \in DOMAIN disc :
             disc[s].find = "resolved" /\ Latest(s) =>
                 keyLights' = keyLights /\ disc'[s].find = "resolved"]_vars

\* C5: when the timer of a discovery fires while the discovery is pending
\* and the registry empty (nothing announced, or only services without an
\* address or a port), the discovery is rejected.
C5_NoDevicesFound ==
    [][\A s \in DOMAIN disc :
          /\ disc[s].timer = "pending" /\ disc'[s].timer = "fired"
          /\ disc[s].find = "pending"
          /\ keyLights = <<>>
          => disc'[s].find = "rejected"]_vars

\* C5 witness: a discovery rejected after its browser reported only a
\* service it could not use
C5_Witness ==
    \E s \in DOMAIN disc :
        /\ disc[s].find = "rejected"
        /\ disc[s].timer = "fired"
        /\ disc[s].up # {}
        /\ Accepted(s) = {}
        /\ keyLights = <<>>

\* C6: a discovery that has settled, resolved or rejected, has released its
\* browser.
C6_BrowserReleased ==
    \A s \in DOMAIN disc : Settled(s) => disc[s].browser # "listening"

\* the positions of the commas of a string, and the k-th of them (0 before
\* the first, one past the end after the last)
Commas(str) == {i \in 1..Len(str) : str[i] = ","}
Comma(str, k) ==
    IF k = 0 THEN 0
    ELSE IF k > Cardinality(Commas(str)) THEN Len(str) + 1
    ELSE CHOOSE i \in Commas(str) :
             Cardinality({j \in Commas(str) : j <= i}) = k

\* the k-th address of a comma-separated list, without the white space
\* around it
Address(str, k) ==
    LET inside == {i \in (Comma(str, k - 1) + 1)..(Comma(str, k) - 1) : str[i] # " "}
    IN  IF inside = {} THEN <<>>
        ELSE SubSeq(str, CHOOSE i \in inside : \A j \in inside : i <= j,
                         CHOOSE i \in inside : \A j \in inside : i >= j)

\* C7: a discover call with a static list of N comma-separated addresses
\* sets the registry to N entries, the k-th with the k-th address of the
\* list, trimmed, and port 9123; it opens no browser, starts no timer and
\* issues no request to a device.
C7_StaticDiscover ==
    [][DiscoverStatic =>
          LET list == preferences.keyLights_ips
              N == Cardinality(Commas(list)) + 1
          IN  /\ Len(keyLights') = N
              /\ \A k \in 1..N :
                     /\ keyLights'[k].ip = Address(list, k)
                     /\ keyLights'[k].port = 9123
              /\ disc' = disc
              /\ reqs' = reqs
              /\ devices' = devices
              /\ op' = op]_vars

\* C7 witness: the registry a static discover built from " a , b "
C7_Witness ==
    /\ preferences.keyLights_ips = <<" ", "a", " ", ",", " ", "b", " ">>
    /\ nCalls = 1
    /\ keyLights = <<[ip |-> <<"a">>, port |-> 9123], [ip |-> <<"b">>, port |-> 9123]>>
    /\ disc = <<>>
    /\ reqs = <<>>

\* the addresses the operation pushed to, in order
PutIps == [k \in DOMAIN Puts |-> Puts[k].ip]

\* C8: after two successive toggle calls that both returned and pushed to
\* the same addresses, every light has the power it had before the first.
C8_ToggleTwice ==
    /\ prev.toggled
    /\ op.kind = "toggle" /\ op.status = "done"
    /\ PutIps = prev.ips
    => \A h \in Hosts : devices[h].on = prev.on[h]

\* C8 witness: two toggles over a registry of two lights, the lights
\* toggled in between
C8_Witness ==
    /\ prev.toggled
    /\ op.kind = "toggle" /\ op.status = "done"
    /\ PutIps = prev.ips
    /\ {PutIps[k] : k \in DOMAIN PutIps} = Hosts
    /\ \A h \in Hosts : op.before[h].on # prev.on[h]
    /\ \A h \in Hosts : devices[h].on = prev.on[h]

\* the field the operations of a kind are to change
Changes(kind) ==
    CASE kind = "toggle" -> "on"
      [] kind \in BrightnessKinds -> "brightness"
      [] kind \in TemperatureKinds -> "temperature"

\* the PUT requests the lights have answered: all of them, but for the one
\* in flight or failed
Answered == IF op.phase = "push" THEN SubSeq(Puts, 1, Len(Puts) - 1) ELSE Puts

\* C9: every PUT of an operation carries the one field the operation
\* changes; the other two attributes of every light stay as they were when
\* the operation was called, and a light that has answered a PUT reports
\* the value of the last PUT it answered.
C9_OneFieldPushed ==
    op.kind \in Kinds =>
        /\ \A k \in DOMAIN Puts : Fields(Puts[k]) = {Changes(op.kind)}
        /\ \A h \in Hosts : \A f \in {"on", "brightness", "temperature"} :
               f # Changes(op.kind) => devices[h][f] = op.before[h][f]
        /\ \A k \in DOMAIN Answered :
               (\A j \in (k + 1)..Len(Puts) : Puts[j].ip # Puts[k].ip)
               => devices[Puts[k].ip][Changes(op.kind)]
                      = Puts[k].lights[1][Changes(op.kind)]

\* C9 witness: increaseBrightness has pushed brightness 8 alone to a light
\* that reported 3, and the light now reports 8, its power and temperature
\* as before
C9_Witness ==
    /\ op.kind = "increaseBrightness" /\ op.status = "done"
    /\ \E k \in DOMAIN Puts :
           /\ Puts[k].lights[1] = [brightness |-> 8]
           /\ op.before[Puts[k].ip].brightness = 3
           /\ devices[Puts[k].ip] =
                  [op.before[Puts[k].ip] EXCEPT !.brightness = 8]

\* an operation that returned over a registry that was not empty returned
\* the value of its last PUT, the PUT for the entry it ended at
C10_LastValue ==
    op.status = "done" /\ reqs # <<>> =>
        /\ op.value = <<Puts[Len(Puts)].lights[1][Changes(op.kind)]>>
        /\ Puts[Len(Puts)].pos = op.i
        /\ Len(reqs) = 2 * op.i

\* C10: an operation that returned over a registry that was not empty
\* returned the value of its last PUT, which is the PUT for the last entry
\* of the registry as it is when the operation returns.
C10_ReturnsLast ==
    /\ []C10_LastValue
    /\ [][op.status = "running" /\ op'.status = "done" =>
             op'.i = Len(keyLights')]_vars

\* C10 witness: a toggle over two lights returned the power computed for
\* the second, which is not the power computed for the first
C10_Witness ==
    /\ op.kind = "toggle" /\ op.status = "done"
    /\ Len(Puts) = 2
    /\ Puts[1].lights[1].on # Puts[2].lights[1].on
    /\ op.value = <<Puts[2].lights[1].on>>

\* the timer of discovery s fires in the step
TimerFires(s) == disc[s].timer = "pending" /\ disc'[s].timer = "fired"

\* browser s reports a service in the step
Reports(s) == disc'[s].up # disc[s].up

\* C11: when the timer of a discovery fires over a registry that is not
\* empty, the discovery is neither resolved nor rejected and its browser
\* stays as it is; a pending discovery is resolved only by an announcement
\* to its browser that brings the registry to the target count, and
\* rejected only by its timer firing over an empty registry.
C11_TimerLeavesPending ==
    [][\A s \in DOMAIN disc :
          /\ TimerFires(s) /\ keyLights # <<>> =>
                 /\ disc'[s].find = disc[s].find
                 /\ disc'[s].browser = disc[s].browser
          /\ disc[s].find = "pending" /\ disc'[s].find = "resolved" =>
                 /\ Reports(s)
                 /\ ~disc[s].count.isNaN
                 /\ Len(keyLights') = disc[s].count.n
                 /\ Len(keyLights) = disc[s].count.n - 1
          /\ disc[s].find = "pending" /\ disc'[s].find = "rejected" =>
                 TimerFires(s) /\ keyLights = <<>>
          /\ disc[s].find # "pending" => disc'[s].find = disc[s].find]_vars

\* C11 witness: the timer has fired with one light found of the two wanted:
\* the discovery is pending, its browser listening
C11_Witness ==
    \E s \in DOMAIN disc :
        /\ disc[s].timer = "fired"
        /\ disc[s].find = "pending"
        /\ disc[s].browser = "listening"
        /\ disc[s].count = [isNaN |-> FALSE, n |-> 2]
        /\ Len(keyLights) = 1

\* the requests of an operation come in turn: the k-th pair is the GET and
\* then the PUT for the entry at position k, and only the last request can
\* be in flight
RequestsInTurn ==
    /\ \A k \in DOMAIN reqs :
           /\ reqs[k].method = (IF k % 2 = 1 THEN "GET" ELSE "PUT")
           /\ reqs[k].pos = (k + 1) \div 2
           /\ k % 2 = 0 => /\ reqs[k].ip = reqs[k - 1].ip
                            /\ reqs[k].port = reqs[k - 1].port
    /\ op.status = "running" =>
           Len(reqs) = (IF op.phase = "fetch" THEN 2 * op.i - 1 ELSE 2 * op.i)
    /\ op.status = "done" => Len(reqs) % 2 = 0

\* the requests of an operation go to the entries of the registry as it was
\* when the operation was called, an operation that returned having gone
\* through all of them
RequestsFollowRegistry ==
    /\ \A k \in DOMAIN reqs :
           /\ reqs[k].pos <= Len(op.registry)
           /\ reqs[k].ip = op.registry[reqs[k].pos].ip
           /\ reqs[k].port = op.registry[reqs[k].pos].port
    /\ op.status = "done" => Len(reqs) = 2 * Len(op.registry)

\* C12: the requests of a control operation are GET, PUT, GET, PUT, ... over
\* the entries of the registry as it was when the operation was called, in
\* order: one GET and one PUT at most for an entry, the PUT after the GET
\* answered, the GET of the next entry after the PUT answered, one request
\* in flight at most.
C12_StrictSequence ==
    op.kind \in Kinds => RequestsInTurn /\ RequestsFollowRegistry

\* C13: no step of a control operation changes the registry, and while
\* every discover call made so far has settled, only a step that is a
\* discover call changes it.
C13_RegistryOwnedByDiscovery ==
    [][/\ op' # op \/ reqs' # reqs => keyLights' = keyLights
       /\ (\A s \in DOMAIN disc : Settled(s)) =>
              \/ DiscoverStatic
              \/ DiscoverBonjour
              \/ keyLights' = keyLights]_vars

\* every discovery before the last one resolved, its browser destroyed
\* before the last one was called, and the browser of the last one has
\* reported nothing yet: no service was reported since the last discover call
FreshDiscovery ==
    /\ disc # <<>>
    /\ disc[Len(disc)].up = {}
    /\ \A r \in 1..(Len(disc) - 1) : disc[r].find = "resolved"

\* C14: a static discover call leaves as the registry the configured
\* addresses, each on port 9123, and nothing else; a multicast discover call
\* leaves the registry empty, and it is empty as long as no browser has
\* reported a service since: what an earlier discover call put there is
\* gone.
C14_ReplacedWholesale ==
    /\ [](FreshDiscovery => keyLights = <<>>)
    /\ [][/\ DiscoverBonjour => keyLights' = <<>>
          /\ DiscoverStatic =>
                 LET list == preferences.keyLights_ips
                 IN  keyLights' =
                         [k \in 1..(Cardinality(Commas(list)) + 1) |->
                             [ip |-> Address(list, k), port |-> 9123]]]_vars

\* C14 witness: a second multicast discover has emptied the registry that
\* the first, resolved, had filled
C14_Witness ==
    /\ Len(disc) = 2
    /\ disc[1].find = "resolved"
    /\ Accepted(1) # {}
    /\ disc[2].up = {}
    /\ disc[2].find = "pending"
    /\ keyLights = <<>>

\* the services browser s reports in the step that carry an address and a
\* port
Usable(s) ==
    {svc \in services : /\ svc.name \in disc'[s].up \ disc[s].up
                        /\ svc.address # <<>>
                        /\ svc.port # 0}

\* C15: a service reported with an address and a port is appended to the
\* registry in the step that reports it, at the end; a service reported
\* without an address or without a port changes neither the registry nor
\* the discovery; and but for a discover call nothing else changes the
\* registry, which is thus the services accepted so far in the order they
\* were reported.
C15_AppendedOnArrival ==
    [][/\ \A s \in DOMAIN disc :
              Reports(s) =>
                  IF Usable(s) # {}
                  THEN \E svc \in Usable(s) :
                           keyLights' = Append(keyLights,
                                               [ip |-> svc.address, port |-> svc.port])
                  ELSE /\ keyLights' = keyLights
                       /\ disc'[s].find = disc[s].find
                       /\ disc'[s].browser = disc[s].browser
       /\ keyLights' # keyLights =>
              \/ DiscoverStatic
              \/ DiscoverBonjour
              \/ \E s \in DOMAIN disc : Reports(s)]_vars

\* C15 witness: the light at "b" was reported before the light at "a", and
\* the registry holds them in that order
C15_Witness ==
    /\ Len(disc) = 1
    /\ disc[1].up = {"A", "B"}
    /\ keyLights = <<[ip |-> <<"b">>, port |-> 9123], [ip |-> <<"a">>, port |-> 9123]>>

\* the Error the operation would have thrown for the same entry had it
\* failed in phase ph
ErrorIn(ph) == caught([op EXCEPT !.phase = ph], reqs[Len(reqs)]).error

\* C16: the Error of a failed operation carries the address of the entry it
\* failed at and the phase that failed: it is not the Error the operation
\* throws when the other phase fails at that entry.
C16_ErrorNamesPhase ==
    op.status = "failed" =>
        /\ op.error.ip = reqs[Len(reqs)].ip
        /\ op.error = ErrorIn(op.phase)
        /\ \A ph \in {"fetch", "push"} \ {op.phase} : op.error # ErrorIn(ph)

\* a temperature of the model that stands for a whole number
IsInteger(t) == t % TempDenom = 0

\* C17: the lights reporting whole temperatures in 143..344 at the start,
\* every temperature a temperature operation pushes is a whole number in
\* 143..344.
C17_IntegerTemperature ==
    op.kind \in TemperatureKinds =>
        \A k \in DOMAIN Puts :
            /\ IsInteger(Puts[k].lights[1].temperature)
            /\ Puts[k].lights[1].temperature \in T(143)..T(344)

\* the services in the registry that browser s has not reported
FromOthers(s) ==
    {k \in DOMAIN keyLights :
        \A svc \in Accepted(s) :
            keyLights[k] # [ip |-> svc.address, port |-> svc.port]}

\* C18: with discover calls that overlap there is one registry for all of
\* them: a discover call empties it whatever call is pending and leaves the
\* pending calls pending, a service any browser accepts lengthens it by one,
\* and a pending call resolves in its own browser's callback when the
\* length of that one registry is its count, whichever browser appended the
\* entries.
C18_OneRegistryForAll ==
    [][/\ Len(disc') > Len(disc) =>
              /\ keyLights' = <<>>
              /\ \A s \in DOMAIN disc : disc'[s] = disc[s]
       /\ \A s \in DOMAIN disc :
              /\ Reports(s) /\ Usable(s) # {} =>
                     Len(keyLights') = Len(keyLights) + 1
              /\ disc[s].find = "pending" /\ disc'[s].find = "resolved" =>
                     /\ Reports(s)
                     /\ StrictEq(Len(keyLights'), disc[s].count)]_vars

\* C18 witness: two calls with count 2 overlap; the second has resolved
\* with a registry of two entries of which its browser reported one, the
\* other coming from the browser of the first; the first is pending, its
\* timer too, though its browser has accepted two services
C18_Witness ==
    /\ Len(disc) = 2
    /\ disc[1].find = "pending" /\ disc[1].timer = "pending"
    /\ Cardinality(Accepted(1)) = 2
    /\ disc[1].count = [isNaN |-> FALSE, n |-> 2]
    /\ disc[2].find = "resolved"
    /\ Cardinality(Accepted(2)) = 1
    /\ Len(keyLights) = 2
    /\ FromOthers(2) # {}

\* C19: a control operation called over an empty registry has returned,
\* with no value, having issued no request, thrown no Error and left the
\* lights as they were.
C19_EmptyRegistry ==
    op.kind \in Kinds /\ op.registry = <<>> =>
        /\ op.status = "done"
        /\ reqs = <<>>
        /\ op.value = <<>>
        /\ op.error = NoError
        /\ devices = op.before

\* C19 witness: a toggle called after a discovery that found nothing
C19_Witness ==
    /\ Len(disc) = 1 /\ disc[1].find = "rejected"
    /\ op.kind = "toggle" /\ op.status = "done"
    /\ op.registry = <<>>
    /\ reqs = <<>>
    /\ op.value = <<>>

\* what the PUT requests answered have left as field f of the light at h:
\* the value of the last of them sent to h, or what the light had when the
\* operation was called
Kept(h, f) ==
    LET ks == {k \in DOMAIN Answered : Answered[k].ip = h}
    IN  IF ks = {} THEN op.before[h][f]
        ELSE Answered[CHOOSE k \in ks : \A j \in ks : j <= k].lights[1][f]

\* C20: after an operation failed at the entry at position i, the lights of
\* the entries before i have the values pushed to them, the light of entry
\* i has the value of the failed PUT or is as the entries before left it,
\* and a light the operation did not get to is as it was when the operation
\* was called: nothing is put back.
C20_NoRollback ==
    op.status = "failed" =>
        LET f == Changes(op.kind)
        IN  \A h \in Hosts :
                \/ devices[h][f] = Kept(h, f)
                \/ /\ op.phase = "push"
                   /\ Puts[Len(Puts)].ip = h
                   /\ devices[h][f] = Puts[Len(Puts)].lights[1][f]

\* C20 witness: a toggle over two lights failed at the second, whose power
\* is as before while the power of the first is changed
C20_Witness ==
    /\ op.kind = "toggle" /\ op.status = "failed"
    /\ op.i = 2
    /\ op.registry = <<[ip |-> <<"a">>, port |-> 9123], [ip |-> <<"b">>, port |-> 9123]>>
    /\ devices[<<"a">>].on # op.before[<<"a">>].on
    /\ devices[<<"b">>].on = op.before[<<"b">>].on

====
